---- MODULE Spec2Model ----
(***************************************************************************)
(* A model of src/2_pactory_pattern.js: the strategy-pattern classes       *)
(* (FlyBehavior, QuackBehavior, their concrete subclasses and Duck), the   *)
(* top-level statements that drive them, the two singleton classes and the *)
(* string-keyed coffee factory.                                            *)
(*                                                                         *)
(* The source's string literals are Korean; the module is ASCII, so each   *)
(* literal is written in translation next to the line that holds it.       *)
(***************************************************************************)
EXTENDS Naturals, Sequences, FiniteSets, TLC

VARIABLES
  ducks,      \* the Duck objects made so far: name -> its two fields
  supplied,   \* history: per Duck and slot, the value the caller stored last and how
  last,       \* the call that ran last: [op, duck, thrown]
  console,    \* the lines written to standard output
  pc,         \* 0: the classes are driven by an arbitrary caller; k >= 1: statement k
              \* of the top-level script (lines 186-201) runs next
  exit,       \* "running", then "success" after the script's last statement or
              \* "uncaught" after an exception no statement caught ended it
  heap,       \* Singleton / DB / factory products: object id -> the object
  nextId,     \* the id the next allocation gets
  Singleton_instance,  \* static Singleton.instance: 0 (null) or an object id
  DB_instance,         \* static DB.instance: 0 (null) or an object id
  calls       \* history: the constructor / factory calls made and what each returned

vars == <<ducks, supplied, last, console, pc, exit, heap, nextId,
          Singleton_instance, DB_instance, calls>>

strategyVars == <<ducks, supplied, last, console, pc, exit>>
creationVars == <<heap, nextId, Singleton_instance, DB_instance, calls>>

-----------------------------------------------------------------------------
(* Values and output lines                                                 *)

\* the value of a missing argument or an unassigned property
undefined == "undefined"

\* the completion of a call that returned normally
NoThrow == "none"

\* new Error("fly() ...") of line 118 and new Error("quack() ...") of line 125:
\* "the fly() / quack() method must be implemented"
FlyUnimplemented == "Error: fly() must be implemented"
QuackUnimplemented == "Error: quack() must be implemented"

\* what the engine throws for a call through undefined or of a non-function
TypeError == "TypeError"

UnimplementedCapability == {FlyUnimplemented, QuackUnimplemented}

\* line 132: "I fly with wings!"
FlyWithWingsLine == "I fly with wings!"
\* line 139: "I cannot fly."
FlyNoWayLine == "I cannot fly."
\* line 146: "quack quack"
QuackLine == "quack quack"
\* line 153
MuteQuackLine == "....."
\* line 165: "the duck enters!!"
DisplayLine == "the duck enters!!"
\* line 169: "the duck leaves.."
HideLine == "the duck leaves.."
\* line 181: "swimming"
SwimLine == "swimming"

\* the result of a call: the console after it and what it threw
Returned(con) == [console |-> con, thrown |-> NoThrow]
Threw(con, e) == [console |-> con, thrown |-> e]

-----------------------------------------------------------------------------
(* The strategy classes, lines 116-155                                     *)

FlyClasses == {"FlyBehavior", "FlyWithWings", "FlyNoWay"}
QuackClasses == {"QuackBehavior", "Quack", "MuteQuack"}
Classes == FlyClasses \cup QuackClasses

\* the `extends` clause of each class; "Object" for a class with none
Extends(c) ==
  CASE c \in {"FlyWithWings", "FlyNoWay"} -> "FlyBehavior"
    [] c \in {"Quack", "MuteQuack"} -> "QuackBehavior"
    [] OTHER -> "Object"

\* the methods each class body declares
OwnMethods(c) ==
  CASE c \in FlyClasses -> {"fly"}
    [] c \in QuackClasses -> {"quack"}
    [] OTHER -> {}

\* property lookup along the prototype chain: the class whose body holds method m
\* for an instance of c, or "Object" when none does
RECURSIVE Resolve(_, _)
Resolve(c, m) ==
  IF c = "Object" THEN "Object"
  ELSE IF m \in OwnMethods(c) THEN c
  ELSE Resolve(Extends(c), m)

FlyBehavior_fly(con) == Threw(con, FlyUnimplemented)
QuackBehavior_quack(con) == Threw(con, QuackUnimplemented)
FlyWithWings_fly(con) == Returned(Append(con, FlyWithWingsLine))

\* FlyNoWay without its own fly(): the call reaches the base class's
FlyNoWay_fly_Inherited(con) == FlyBehavior_fly(con)
FlyNoWay_fly(con) == Returned(Append(con, FlyNoWayLine))

Quack_quack(con) == Returned(Append(con, QuackLine))
MuteQuack_quack(con) == Returned(Append(con, MuteQuackLine))

\* the body of method m as class c declares it
Body(c, m, con) ==
  CASE c = "FlyBehavior" /\ m = "fly" -> FlyBehavior_fly(con)
    [] c = "FlyWithWings" /\ m = "fly" -> FlyWithWings_fly(con)
    [] c = "FlyNoWay" /\ m = "fly" -> FlyNoWay_fly(con)
    [] c = "QuackBehavior" /\ m = "quack" -> QuackBehavior_quack(con)
    [] c = "Quack" /\ m = "quack" -> Quack_quack(con)
    [] c = "MuteQuack" /\ m = "quack" -> MuteQuack_quack(con)
    [] OTHER -> Threw(con, TypeError)

\* The caller's provider objects. The classes declare no fields, so an instance is
\* its class and nothing else; the pool holds one instance of each class, and two
\* slots holding the same name hold the same reference.
ClassOf(obj) == obj

\* obj?.m?.(): a call that skips what is not there
Invoke_Optional(obj, m, con) ==
  IF obj = undefined THEN Returned(con)
  ELSE IF Resolve(ClassOf(obj), m) = "Object" THEN Returned(con)
  ELSE Body(Resolve(ClassOf(obj), m), m, con)

\* the call obj.m(): a TypeError when obj is undefined or has no such method,
\* else the body the prototype chain finds
Invoke(obj, m, con) ==
  IF obj = undefined THEN Threw(con, TypeError)
  ELSE IF Resolve(ClassOf(obj), m) = "Object" THEN Threw(con, TypeError)
  ELSE Body(Resolve(ClassOf(obj), m), m, con)

-----------------------------------------------------------------------------
(* class Duck, lines 158-183                                               *)

\* the constructor with its two assignments crossed
Duck_constructor_Swapped(flyBehavior, quackBehavior) ==
  [flyBehavior |-> quackBehavior, quackBehavior |-> flyBehavior]

\* the constructor without its second assignment
Duck_constructor_DropsQuack(flyBehavior, quackBehavior) ==
  [flyBehavior |-> flyBehavior, quackBehavior |-> undefined]

Duck_constructor(flyBehavior, quackBehavior) ==
  [flyBehavior |-> flyBehavior, quackBehavior |-> quackBehavior]

Duck_display(this, con) == Returned(Append(con, DisplayLine))
Duck_hide(this, con) == Returned(Append(con, HideLine))

\* performFly delegating to the other slot
Duck_performFly_CallsQuack(this, con) == Invoke(this.quackBehavior, "quack", con)

\* performQuack catching what the provider throws
Duck_performQuack_Swallows(this, con) ==
  Returned(Invoke(this.quackBehavior, "quack", con).console)

Duck_performFly(this, con) == Invoke(this.flyBehavior, "fly", con)
Duck_performQuack(this, con) == Invoke(this.quackBehavior, "quack", con)
Duck_swim(this, con) == Returned(Append(con, SwimLine))

\* the assignment landing in the other field
AssignFlyBehavior_WrongField(objs, d, p) == [objs EXCEPT ![d].quackBehavior = p]

\* the slot kept once for the class instead of per Duck
AssignQuackBehavior_Shared(objs, d, p) ==
  [e \in DOMAIN objs |-> [objs[e] EXCEPT !.quackBehavior = p]]

\* the assignments duck.flyBehavior = p and duck.quackBehavior = p that the closing
\* comment (lines 203-208) describes: the fields of lines 160-161 are public
AssignFlyBehavior(objs, d, p) == [objs EXCEPT ![d].flyBehavior = p]
AssignQuackBehavior(objs, d, p) == [objs EXCEPT ![d].quackBehavior = p]

\* a method call on Duck d
Duck_call(op, this, con) ==
  CASE op = "display" -> Duck_display(this, con)
    [] op = "hide" -> Duck_hide(this, con)
    [] op = "performFly" -> Duck_performFly(this, con)
    [] op = "performQuack" -> Duck_performQuack(this, con)
    [] op = "swim" -> Duck_swim(this, con)

Methods == {"display", "hide", "performFly", "performQuack", "swim"}

-----------------------------------------------------------------------------
(* Callers                                                                 *)

\* the two Duck objects the source names (lines 186-187)
Ducks == {"mallard", "rubberDuck"}

\* What a caller can hand to a slot. The constructor and the assignments validate
\* nothing, so besides the providers of the slot's family there are undefined (an
\* argument left out) and a provider of the other family (the arguments swapped).
FlyArgs == FlyClasses \cup {undefined, "Quack"}
QuackArgs == QuackClasses \cup {undefined, "FlyWithWings"}

\* The console a call starts from. The script accumulates its output; a caller
\* that drives the classes itself (pc = 0) captures the lines of each call apart.
Capture == IF pc = 0 THEN << >> ELSE console

\* new Duck(f, q), bound to name d
DoNew(d, f, q) ==
  /\ d \notin DOMAIN ducks
  /\ ducks' = (d :> Duck_constructor(f, q)) @@ ducks
  /\ supplied' = (d :> [fly |-> f, quack |-> q, flyBy |-> "new", quackBy |-> "new"])
                   @@ supplied
  /\ last' = [op |-> "new", duck |-> d, thrown |-> NoThrow]
  /\ console' = Capture

\* d.flyBehavior = p
DoAssignFly(d, p) ==
  /\ d \in DOMAIN ducks
  /\ ducks' = AssignFlyBehavior(ducks, d, p)
  /\ supplied' = [supplied EXCEPT ![d].fly = p, ![d].flyBy = "set"]
  /\ last' = [op |-> "setFly", duck |-> d, thrown |-> NoThrow]
  /\ console' = Capture

\* d.quackBehavior = p
DoAssignQuack(d, p) ==
  /\ d \in DOMAIN ducks
  /\ ducks' = AssignQuackBehavior(ducks, d, p)
  /\ supplied' = [supplied EXCEPT ![d].quack = p, ![d].quackBy = "set"]
  /\ last' = [op |-> "setQuack", duck |-> d, thrown |-> NoThrow]
  /\ console' = Capture

\* d.op()
DoCall(op, d) ==
  /\ d \in DOMAIN ducks
  /\ LET r == Duck_call(op, ducks[d], Capture)
     IN  /\ console' = r.console
         /\ last' = [op |-> op, duck |-> d, thrown |-> r.thrown]
  /\ UNCHANGED <<ducks, supplied>>

Construct ==
  /\ pc = 0
  /\ \E d \in Ducks, f \in FlyArgs, q \in QuackArgs : DoNew(d, f, q)
  /\ UNCHANGED <<pc, exit>>
  /\ UNCHANGED creationVars

ReplaceA ==
  /\ pc = 0
  /\ \E d \in Ducks, p \in FlyArgs : DoAssignFly(d, p)
  /\ UNCHANGED <<pc, exit>>
  /\ UNCHANGED creationVars

ReplaceB ==
  /\ pc = 0
  /\ \E d \in Ducks, p \in QuackArgs : DoAssignQuack(d, p)
  /\ UNCHANGED <<pc, exit>>
  /\ UNCHANGED creationVars

Call ==
  /\ pc = 0
  /\ \E d \in Ducks, op \in Methods : DoCall(op, d)
  /\ UNCHANGED <<pc, exit>>
  /\ UNCHANGED creationVars

\* the top-level statements of lines 186-201, in order
Script == <<
  [op |-> "new", duck |-> "mallard", fly |-> "FlyWithWings", quack |-> "Quack"],
  [op |-> "new", duck |-> "rubberDuck", fly |-> "FlyNoWay", quack |-> "MuteQuack"],
  [op |-> "display", duck |-> "mallard", fly |-> "", quack |-> ""],
  [op |-> "performFly", duck |-> "mallard", fly |-> "", quack |-> ""],
  [op |-> "performQuack", duck |-> "mallard", fly |-> "", quack |-> ""],
  [op |-> "swim", duck |-> "mallard", fly |-> "", quack |-> ""],
  [op |-> "hide", duck |-> "mallard", fly |-> "", quack |-> ""],
  [op |-> "display", duck |-> "rubberDuck", fly |-> "", quack |-> ""],
  [op |-> "performFly", duck |-> "rubberDuck", fly |-> "", quack |-> ""],
  [op |-> "performQuack", duck |-> "rubberDuck", fly |-> "", quack |-> ""],
  [op |-> "swim", duck |-> "rubberDuck", fly |-> "", quack |-> ""],
  [op |-> "hide", duck |-> "rubberDuck", fly |-> "", quack |-> ""] >>

\* one statement of the script; an exception no statement catches ends the run
Main ==
  /\ pc \in 1..Len(Script)
  /\ exit = "running"
  /\ LET s == Script[pc]
     IN  IF s.op = "new" THEN DoNew(s.duck, s.fly, s.quack) ELSE DoCall(s.op, s.duck)
  /\ pc' = pc + 1
  /\ exit' = IF last'.thrown # NoThrow THEN "uncaught"
             ELSE IF pc = Len(Script) THEN "success"
             ELSE "running"
  /\ UNCHANGED creationVars

NoCall == [op |-> "none", duck |-> "none", thrown |-> NoThrow]

Init ==
  /\ ducks = << >>
  /\ supplied = << >>
  /\ last = NoCall
  /\ console = << >>
  /\ pc \in {0, 1}
  /\ exit = "running"
  /\ heap = << >>
  /\ nextId = 1
  /\ Singleton_instance = 0
  /\ DB_instance = 0
  /\ calls = << >>

Next == Construct \/ ReplaceA \/ ReplaceB \/ Call \/ Main

Spec == Init /\ [][Next]_vars

-----------------------------------------------------------------------------
(* Properties of the strategy classes                                      *)

\* what calling provider p's operation m directly, on an empty console, gives
ProviderOutput(p, m) == Invoke(p, m, << >>)

\* the outcome of the call that ran last, as its caller sees it
Outcome == [console |-> console, thrown |-> last.thrown]

\* the last call was d.op() made by a caller that captures each call's lines
JustCalled(d, op) == pc = 0 /\ last.duck = d /\ last.op = op

ConcreteFly == {"FlyWithWings", "FlyNoWay"}
ConcreteQuack == {"Quack", "MuteQuack"}

\* C1: the operation of an abstract base throws its "must be implemented" error on
\* every call, and a Duck whose slot holds a base instance lets that error reach
\* the caller of performFly / performQuack, with nothing printed
C1_BaseAlwaysThrows ==
  /\ FlyBehavior_fly(console) = Threw(console, FlyUnimplemented)
  /\ QuackBehavior_quack(console) = Threw(console, QuackUnimplemented)
  /\ \A d \in DOMAIN ducks :
       /\ JustCalled(d, "performFly") /\ ducks[d].flyBehavior = "FlyBehavior"
            => Outcome = Threw(<< >>, FlyUnimplemented)
       /\ JustCalled(d, "performQuack") /\ ducks[d].quackBehavior = "QuackBehavior"
            => Outcome = Threw(<< >>, QuackUnimplemented)

C1_Witness ==
  \E d \in DOMAIN ducks :
    /\ JustCalled(d, "performQuack")
    /\ ducks[d].quackBehavior = "QuackBehavior"
    /\ last.thrown = QuackUnimplemented

\* the Duck d was constructed with providers of the two families and neither slot
\* has been assigned since
Unreplaced(d) ==
  /\ supplied[d].flyBy = "new" /\ supplied[d].quackBy = "new"
  /\ supplied[d].fly \in FlyClasses /\ supplied[d].quack \in QuackClasses

\* C2: for a Duck constructed with providers (P1, P2) and no slot assigned since,
\* every performFly gives exactly what P1.fly() gives and every performQuack what
\* P2.quack() gives, whatever calls were made before and in whatever order
C2_DelegatesToConstructed ==
  \A d \in DOMAIN ducks :
    Unreplaced(d) =>
      /\ JustCalled(d, "performFly") => Outcome = ProviderOutput(supplied[d].fly, "fly")
      /\ JustCalled(d, "performQuack")
           => Outcome = ProviderOutput(supplied[d].quack, "quack")

C2_Witness ==
  \E d \in DOMAIN ducks :
    /\ Unreplaced(d)
    /\ JustCalled(d, "performFly")
    /\ supplied[d].fly = "FlyNoWay"
    /\ console = <<FlyNoWayLine>>
    /\ \E e \in DOMAIN ducks : e # d /\ supplied[e].flyBy = "set"

\* C3, in states: once a slot was assigned provider P3, the delegate call of that
\* slot gives what P3's operation gives
C3_DelegatesToAssigned ==
  \A d \in DOMAIN ducks :
    /\ JustCalled(d, "performFly") /\ supplied[d].flyBy = "set"
         => Outcome = ProviderOutput(supplied[d].fly, "fly")
    /\ JustCalled(d, "performQuack") /\ supplied[d].quackBy = "set"
         => Outcome = ProviderOutput(supplied[d].quack, "quack")

\* C3, in steps: an assignment of P3 to a slot overwrites that slot alone; the
\* delegate call of that slot gives P3's output from then on, which is not the
\* output of the provider P1 it replaced, and the other slot and its delegate call
\* are as before
C3_AssignStep ==
  \A d \in DOMAIN ducks :
    /\ last'.op = "setFly" /\ last'.duck = d =>
         /\ ducks'[d].flyBehavior = supplied'[d].fly
         /\ Duck_performFly(ducks'[d], << >>) = ProviderOutput(supplied'[d].fly, "fly")
         /\ ( /\ ducks[d].flyBehavior \in FlyClasses
              /\ supplied'[d].fly \in FlyClasses
              /\ supplied'[d].fly # ducks[d].flyBehavior )
              => Duck_performFly(ducks'[d], << >>)
                   # ProviderOutput(ducks[d].flyBehavior, "fly")
         /\ ducks'[d].quackBehavior = ducks[d].quackBehavior
         /\ Duck_performQuack(ducks'[d], << >>) = Duck_performQuack(ducks[d], << >>)
    /\ last'.op = "setQuack" /\ last'.duck = d =>
         /\ ducks'[d].quackBehavior = supplied'[d].quack
         /\ Duck_performQuack(ducks'[d], << >>)
              = ProviderOutput(supplied'[d].quack, "quack")
         /\ ( /\ ducks[d].quackBehavior \in QuackClasses
              /\ supplied'[d].quack \in QuackClasses
              /\ supplied'[d].quack # ducks[d].quackBehavior )
              => Duck_performQuack(ducks'[d], << >>)
                   # ProviderOutput(ducks[d].quackBehavior, "quack")
         /\ ducks'[d].flyBehavior = ducks[d].flyBehavior
         /\ Duck_performFly(ducks'[d], << >>) = Duck_performFly(ducks[d], << >>)

\* C3: after an assignment of P3 to a Duck's slot every later delegate call of that
\* slot gives P3's output and not the replaced provider's, until the slot is
\* assigned again, and the other slot and its delegate call are untouched
C3_ReplaceTakesEffect == [] C3_DelegatesToAssigned /\ [][C3_AssignStep]_vars

C3_Witness ==
  \E d \in DOMAIN ducks :
    /\ JustCalled(d, "performFly")
    /\ supplied[d].flyBy = "set" /\ supplied[d].quackBy = "new"
    /\ supplied[d].fly = "FlyNoWay"
    /\ console = <<FlyNoWayLine>>

\* C4, in states: two Ducks holding the same provider references give the same
\* outcome for each delegate call
C4_SameProvidersSameBehaviour ==
  \A d \in DOMAIN ducks, e \in DOMAIN ducks :
    /\ supplied[d].fly = supplied[e].fly
         => Duck_performFly(ducks[d], << >>) = Duck_performFly(ducks[e], << >>)
    /\ supplied[d].quack = supplied[e].quack
         => Duck_performQuack(ducks[d], << >>) = Duck_performQuack(ducks[e], << >>)

\* C4, in steps: a step on one Duck (its construction, an assignment to a slot, a
\* call) leaves every other Duck's slots and delegate outcomes as they were, and
\* no step changes what a provider's operation gives
C4_OtherDucksUntouched ==
  /\ \A e \in DOMAIN ducks \ {last'.duck} :
       /\ ducks'[e] = ducks[e]
       /\ (Duck_performFly(ducks[e], << >>))' = Duck_performFly(ducks[e], << >>)
       /\ (Duck_performQuack(ducks[e], << >>))' = Duck_performQuack(ducks[e], << >>)
  /\ last'.op \in Methods => ducks' = ducks

\* C4: Ducks built from the same provider references behave alike and are
\* independent: an assignment to one Duck's slot changes no slot and no delegate
\* outcome of another, and a provider's operation, shared or not, gives the same
\* thing whichever Duck was used before
C4_Independent == [] C4_SameProvidersSameBehaviour /\ [][C4_OtherDucksUntouched]_vars

C4_Witness ==
  /\ pc = 0
  /\ DOMAIN ducks = Ducks
  /\ last.op = "setFly" /\ last.duck = "mallard"
  /\ supplied["mallard"].fly = "FlyNoWay"
  /\ supplied["rubberDuck"].fly = "FlyWithWings"
  /\ supplied["rubberDuck"].flyBy = "new"
  /\ supplied["mallard"].quack = supplied["rubberDuck"].quack
  /\ supplied["mallard"].quack = "Quack"

FixedLine(c) ==
  CASE c = "FlyWithWings" -> FlyWithWingsLine
    [] c = "FlyNoWay" -> FlyNoWayLine
    [] c = "Quack" -> QuackLine
    [] c = "MuteQuack" -> MuteQuackLine

\* C7: the operation of a concrete provider never throws and prints that class's
\* own line, the same on every call, and the two concrete classes of a family
\* print different lines
C7_ConcreteFixedDistinct ==
  /\ \A d \in DOMAIN ducks :
       /\ JustCalled(d, "performFly") /\ ducks[d].flyBehavior \in ConcreteFly
            => Outcome = Returned(<<FixedLine(ducks[d].flyBehavior)>>)
       /\ JustCalled(d, "performQuack") /\ ducks[d].quackBehavior \in ConcreteQuack
            => Outcome = Returned(<<FixedLine(ducks[d].quackBehavior)>>)
  /\ \A c \in ConcreteFly :
       /\ ProviderOutput(c, "fly") = Returned(<<FixedLine(c)>>)
       /\ \A e \in ConcreteFly \ {c} : ProviderOutput(c, "fly") # ProviderOutput(e, "fly")
  /\ \A c \in ConcreteQuack :
       /\ ProviderOutput(c, "quack") = Returned(<<FixedLine(c)>>)
       /\ \A e \in ConcreteQuack \ {c} :
            ProviderOutput(c, "quack") # ProviderOutput(e, "quack")

C7_Witness ==
  \E d \in DOMAIN ducks :
    /\ JustCalled(d, "performQuack")
    /\ ducks[d].quackBehavior = "MuteQuack"
    /\ console = <<MuteQuackLine>>
    /\ last.thrown = NoThrow

\* the standard output of a complete run of the script
ScriptOutput ==
  <<DisplayLine, FlyWithWingsLine, QuackLine, SwimLine, HideLine,
    DisplayLine, FlyNoWayLine, MuteQuackLine, SwimLine, HideLine>>

\* the statements of the script that are method calls on Duck d
CallsOn(d) == {i \in 1..Len(Script) : Script[i].duck = d /\ Script[i].op \in Methods}

\* C8: the script makes mallard from (FlyWithWings, Quack) and rubberDuck from
\* (FlyNoWay, MuteQuack), calls each of the five methods once on each, all of
\* mallard's calls before any of rubberDuck's, never throws, and ends with exit
\* "success" having printed mallard's five lines (its performFly the wings line,
\* its performQuack the quack line) and then rubberDuck's five (its performFly
\* the cannot-fly line, its performQuack the silent line)
C8_ScriptRun ==
  pc >= 1 =>
    /\ exit # "uncaught" /\ last.thrown = NoThrow
    /\ \A d \in Ducks, m \in Methods :
         Cardinality({i \in CallsOn(d) : Script[i].op = m}) = 1
    /\ \A i \in CallsOn("mallard"), j \in CallsOn("rubberDuck") : i < j
    /\ console = SubSeq(ScriptOutput, 1, Len(console))
    /\ Len(console) = Cardinality({i \in CallsOn("mallard") \cup CallsOn("rubberDuck") :
                                     i < pc})
    /\ pc > 2 =>
         /\ ducks["mallard"] = [flyBehavior |-> "FlyWithWings", quackBehavior |-> "Quack"]
         /\ ducks["rubberDuck"]
              = [flyBehavior |-> "FlyNoWay", quackBehavior |-> "MuteQuack"]
    /\ (pc > 1 /\ Script[pc - 1].op = "performFly" /\ Script[pc - 1].duck = "mallard")
         => console[Len(console)] = FlyWithWingsLine
    /\ (pc > 1 /\ Script[pc - 1].op = "performQuack" /\ Script[pc - 1].duck = "mallard")
         => console[Len(console)] = QuackLine
    /\ (pc > 1 /\ Script[pc - 1].op = "performFly" /\ Script[pc - 1].duck = "rubberDuck")
         => console[Len(console)] = FlyNoWayLine
    /\ (pc > 1 /\ Script[pc - 1].op = "performQuack" /\ Script[pc - 1].duck = "rubberDuck")
         => console[Len(console)] = MuteQuackLine
    /\ pc = Len(Script) + 1 <=> exit = "success"
    /\ exit = "success" => console = ScriptOutput

C8_Witness == pc = Len(Script) + 1 /\ exit = "success" /\ Len(console) = 10

-----------------------------------------------------------------------------
(* The singleton classes, lines 244-296                                    *)

\* the initial value of the static fields (lines 246 and 278)
null == 0

\* the most constructor calls a run of the singleton classes makes
MaxNew == 4

\* line 274, and two other arguments a caller may pass
URL == "mongodb://localhost:8080/project"
Urls == {URL, "mongodb://localhost:8080/other", ""}

\* an object with no own properties, and one with a single property
Plain(class) == [class |-> class, props |-> << >>]
WithProp(class, key, value) == [class |-> class, props |-> (key :> value)]

\* the constructor without its guard
Singleton_constructor_NoGuard(instance, this) == [instance |-> this, result |-> this]

\* constructor() of Singleton, run on the fresh object `this` with the static
\* field holding `instance`: the value the field holds afterwards and the object
\* the `new` expression evaluates to
Singleton_constructor(instance, this) ==
  IF instance # null
    THEN [instance |-> instance, result |-> instance]
    ELSE [instance |-> this, result |-> this]

\* line 275
createConnection(url) == WithProp("Object", "url", url)

\* constructor(url) of DB with the static field holding `instance`; `fresh` is
\* the id createConnection's object gets if it is called
DB_constructor(instance, url, fresh) ==
  IF instance = null
    THEN [instance |-> fresh, result |-> fresh, created |-> TRUE]
    ELSE [instance |-> instance, result |-> instance, created |-> FALSE]

\* new Singleton()
NewSingleton ==
  /\ Len(calls) < MaxNew
  /\ LET this == nextId
         r == Singleton_constructor(Singleton_instance, this)
     IN  /\ heap' = (this :> Plain("Singleton")) @@ heap
         /\ nextId' = nextId + 1
         /\ Singleton_instance' = r.instance
         /\ calls' = Append(calls, [callee |-> "Singleton", arg |-> "", this |-> this,
                                    result |-> r.result, thrown |-> NoThrow])
  /\ UNCHANGED DB_instance
  /\ UNCHANGED strategyVars

\* new DB(url)
NewDB ==
  /\ Len(calls) < MaxNew
  /\ \E url \in Urls :
       LET this == nextId
           r == DB_constructor(DB_instance, url, nextId + 1)
       IN  /\ heap' = IF r.created
                        THEN (this :> Plain("DB")) @@ (nextId + 1 :> createConnection(url))
                               @@ heap
                        ELSE (this :> Plain("DB")) @@ heap
           /\ nextId' = IF r.created THEN nextId + 2 ELSE nextId + 1
           /\ DB_instance' = r.instance
           /\ calls' = Append(calls, [callee |-> "DB", arg |-> url, this |-> this,
                                      result |-> r.result, thrown |-> NoThrow])
  /\ UNCHANGED Singleton_instance
  /\ UNCHANGED strategyVars

InitCreation == Init /\ pc = 0

NextSingleton == NewSingleton \/ NewDB

SpecSingleton == InitCreation /\ [][NextSingleton]_vars

\* the calls of one class, in order
CallsOf(c) == SelectSeq(calls, LAMBDA k : k.callee = c)

\* C9: every new Singleton() evaluates to the object the first one made, every
\* new DB(url) to one connection object, made from the first call's url; each
\* static field is null until the class's first call and holds that one object
\* ever after
C9_AtMostOnce ==
  LET s == CallsOf("Singleton")
      b == CallsOf("DB")
  IN  /\ Singleton_instance = IF s = << >> THEN null ELSE s[1].this
      /\ \A i \in 1..Len(s) : s[i].result = s[1].this /\ s[i].result # null
      /\ DB_instance = IF b = << >> THEN null ELSE b[1].result
      /\ \A i \in 1..Len(b) :
           /\ b[i].result = b[1].result /\ b[i].result # null
           /\ heap[b[i].result] = createConnection(b[1].arg)
           /\ b[i].result # b[i].this
      /\ Cardinality({id \in DOMAIN heap : heap[id].class = "Object"})
           = IF b = << >> THEN 0 ELSE 1

C9_Witness ==
  LET s == CallsOf("Singleton")
      b == CallsOf("DB")
  IN  /\ Len(s) = 2 /\ Len(b) = 2
      /\ s[2].this # s[2].result
      /\ b[1].arg # b[2].arg
      /\ heap[b[2].result].props["url"] = b[1].arg

-----------------------------------------------------------------------------
(* The coffee factory, lines 40-85                                         *)

\* the most factory calls a run makes
MaxCreate == 3

\* new Latte() and new Espresso() (lines 48-58): the object each constructor fills
Latte_constructor == WithProp("Latte", "name", "latte")
Espresso_constructor == WithProp("Espresso", "name", "espresso")

\* static createCoffee() of the two factory subclasses (lines 61-74)
LatteFactory_createCoffee == Latte_constructor
EspressoFactory_createCoffee == Espresso_constructor

\* line 76: the object literal { LatteFactory, EspressoFactory }, key -> class
factoryList ==
  ("LatteFactory" :> "LatteFactory") @@ ("EspressoFactory" :> "EspressoFactory")

\* properties every object literal inherits from Object.prototype
ObjectPrototypeKeys == {"constructor", "toString", "valueOf", "hasOwnProperty"}

\* a lookup that falls back to a default factory
factoryList_get_Default(type) ==
  IF type \in DOMAIN factoryList THEN factoryList[type] ELSE "LatteFactory"

\* factoryList[type] (line 43): an own key gives its class, an inherited key a
\* built-in function, any other key undefined
factoryList_get(type) ==
  IF type \in DOMAIN factoryList THEN factoryList[type]
  ELSE IF type \in ObjectPrototypeKeys THEN "builtin"
  ELSE undefined

\* the classes that have a static createCoffee
HasCreateCoffee(factory) == factory \in {"LatteFactory", "EspressoFactory"}

\* the call factory.createCoffee() of line 44, given that factory has the method
createCoffee(factory) ==
  CASE factory = "LatteFactory" -> LatteFactory_createCoffee
    [] factory = "EspressoFactory" -> EspressoFactory_createCoffee

\* static createCoffeeFactory(type), lines 42-45: what it throws and the object
\* it constructed (thrown is TypeError when factory is undefined or has no
\* createCoffee, and then nothing was constructed)
CoffeeFactory_createCoffeeFactory(type) ==
  LET factory == factoryList_get(type)
  IN  IF factory = undefined \/ ~HasCreateCoffee(factory)
        THEN [thrown |-> TypeError, made |-> FALSE, object |-> Plain("none")]
        ELSE [thrown |-> NoThrow, made |-> TRUE, object |-> createCoffee(factory)]

\* the keys a caller passes: the two of factoryList, the base class's name, an
\* inherited key and a missing argument
Types == {"LatteFactory", "EspressoFactory", "CoffeeFactory", "constructor", undefined}

\* one call of the factory with `type`; log is whether the caller logs the result
CallFactory(type, log) ==
  LET r == CoffeeFactory_createCoffeeFactory(type)
  IN  /\ heap' = IF r.made THEN (nextId :> r.object) @@ heap ELSE heap
      /\ nextId' = IF r.made THEN nextId + 1 ELSE nextId
      /\ calls' = Append(calls, [callee |-> "createCoffeeFactory", arg |-> type,
                                 this |-> null,
                                 result |-> IF r.made THEN nextId ELSE null,
                                 thrown |-> r.thrown])
      /\ console' = IF log /\ r.made THEN Append(console, r.object) ELSE console

\* CoffeeFactory.createCoffeeFactory(type) by an arbitrary caller
CreateCoffee ==
  /\ Len(calls) < MaxCreate
  /\ \E type \in Types : CallFactory(type, FALSE)
  /\ UNCHANGED <<ducks, supplied, last, pc, exit, Singleton_instance, DB_instance>>

\* main() of lines 78-85: the call with "EspressoFactory", and its result logged
main ==
  /\ Len(calls) < MaxCreate
  /\ CallFactory("EspressoFactory", TRUE)
  /\ UNCHANGED <<ducks, supplied, last, pc, exit, Singleton_instance, DB_instance>>

NextFactory == CreateCoffee \/ main

SpecFactory == InitCreation /\ [][NextFactory]_vars

\* the product the key names
ProductOf(type) ==
  CASE type = "LatteFactory" -> [class |-> "Latte", name |-> "latte"]
    [] type = "EspressoFactory" -> [class |-> "Espresso", name |-> "espresso"]

\* C10: a call with a key of factoryList returns a newly made object of the
\* class the key names, with that class's name, different from every object
\* returned before and the same whatever was called before; a call with any
\* other key throws and returns no product
C10_FactoryDispatch ==
  /\ \A i \in 1..Len(calls) :
       IF calls[i].arg \in {"LatteFactory", "EspressoFactory"}
         THEN /\ calls[i].thrown = NoThrow
              /\ calls[i].result \in DOMAIN heap
              /\ heap[calls[i].result].class = ProductOf(calls[i].arg).class
              /\ heap[calls[i].result].props = ("name" :> ProductOf(calls[i].arg).name)
              /\ \A j \in 1..Len(calls) : j # i => calls[j].result # calls[i].result
         ELSE /\ calls[i].thrown # NoThrow
              /\ calls[i].result = null
  /\ Cardinality(DOMAIN heap) = Cardinality({i \in 1..Len(calls) : calls[i].result # null})

C10_Witness ==
  /\ Len(calls) = 3
  /\ calls[1].arg = "LatteFactory" /\ calls[2].arg = "constructor"
  /\ calls[3].arg = "LatteFactory"
  /\ calls[1].result # calls[3].result
  /\ heap[calls[1].result] = heap[calls[3].result]
  /\ calls[2].thrown = TypeError

====
